---- MODULE Spec2Model ----
(***************************************************************************)
(* Model of lib/adf_obs.py (class AdfObs): the constructor that loads the  *)
(* variable defaults, resolves one observation file per requested variable *)
(* and fills var_obs_dict, and the copy-returning properties.              *)
(*                                                                         *)
(* Encoding of Python values:                                              *)
(*   - a path string is the tuple of its "/"-separated segments            *)
(*     ("/obs/TS.nc" is <<"", "obs", "TS.nc">>, "" is <<"">>);             *)
(*     None is the empty tuple, which no string is;                        *)
(*   - a pathlib.Path is [root, parts];                                    *)
(*   - a dict is a function on its keys; the insertion-ordered             *)
(*     var_obs_dict is a sequence of <<key, value>> pairs.                 *)
(***************************************************************************)
EXTENDS Integers, Sequences, FiniteSets, TLC

\* ------------------------------------------------------------------ bounds
MaxLen == 3

\* ------------------------------------------------------------ input values
NoneVal == << >>

Vars == {"TS", "PRECT"}

BundledFile == <<"adf_variable_defaults.yaml">>
CustomFile  == <<"", "cfg", "custom.yaml">>
MissingFile == <<"", "cfg", "missing.yaml">>
BrokenFile  == <<"", "cfg", "broken.yaml">>

AbsObs == <<"", "obs", "TS.nc">>
RelObs == <<"obs", "TS.nc">>
DotObs == <<".", "obs", "TS.nc">>
FallbackDir == <<"", "F">>

Records ==
    { "obs_name" :> "ERA5",
      "obs_file" :> AbsObs,
      "obs_file" :> RelObs,
      ("obs_file" :> DotObs) @@ ("obs_name" :> "ERA5") @@ ("obs_var_name" :> "t2m"),
      ("obs_file" :> AbsObs) @@ ("obs_var_name" :> "t2m") }

Catalogs == UNION { [D -> Records] : D \in SUBSET Vars }

OtherTable == "TS" :> ("obs_file" :> RelObs)

VarLists == UNION { [1..n -> Vars] : n \in 0..MaxLen }

\* ------------------------------------------------------------------- state
VARIABLES
    config,                 \* the configuration read through read_config_var
    yaml_files,             \* defaults files on disk: name -> [ok, data]
    obs_files,              \* Paths that are regular files
    self_use_defaults,      \* self.__use_defaults
    self_variable_defaults, \* self.__variable_defaults
    self_diag_var_list,     \* self.__diag_var_list
    self_compare_obs,       \* self.__compare_obs
    self_var_obs_dict,      \* self.__var_obs_dict
    defaults_file,          \* local _defaults_file
    loc_variable_defaults,  \* local _variable_defaults
    obs_data_loc,           \* local obs_data_loc
    idx,                    \* position of the for loop in diag_var_list
    cfgReads,               \* config keys read so far
    fsChecks,               \* Paths on which is_file() was called, in order
    recReads,               \* variables whose defaults record was extracted
    events,                 \* debug_log lines and printed warnings, in order
    pc,                     \* position of the constructor
    held                    \* values returned to the caller by the properties

vars == << config, yaml_files, obs_files, self_use_defaults,
           self_variable_defaults, self_diag_var_list, self_compare_obs,
           self_var_obs_dict, defaults_file, loc_variable_defaults,
           obs_data_loc, idx, cfgReads, fsChecks, recReads, events, pc, held >>

inputs == << config, yaml_files, obs_files >>

\* --------------------------------------------------------- pure operations
\* Python truth value of an optional string
Truthy(s) == s # NoneVal /\ s # <<"">>

IsPart(x) == x # "" /\ x # "."

PathRoot(s) ==
    IF Len(s) >= 2 /\ s[1] = ""
    THEN IF Len(s) >= 3 /\ s[2] = "" /\ ~(Len(s) >= 4 /\ s[3] = "")
         THEN 2 ELSE 1
    ELSE 0

\* pathlib.Path(s)
Path(s) == [root |-> PathRoot(s), parts |-> SelectSeq(s, IsPart)]

\* pathlib:  a / b
JoinPath(a, b) ==
    IF b.root # 0 THEN b
    ELSE [root |-> a.root, parts |-> a.parts \o b.parts]

\* pathlib:  p.name
PathName(p) == IF p.parts = << >> THEN "" ELSE p.parts[Len(p.parts)]

\* pathlib:  p.is_file()
is_file(p) == p \in obs_files

Keys(d) == { d[i][1] : i \in 1..Len(d) }

DictGet(d, k) == d[CHOOSE i \in 1..Len(d) : d[i][1] = k][2]

\* variant: an assignment always adds a new entry
DictSetAppend(d, k, val) == Append(d, <<k, val>>)

\* d[k] = val on an insertion-ordered dict
DictSet(d, k, val) ==
    IF k \in Keys(d)
    THEN [i \in 1..Len(d) |-> IF d[i][1] = k THEN <<k, val>> ELSE d[i]]
    ELSE Append(d, <<k, val>>)

\* variant: custom_defaults is ignored
DefaultsFileBundled(cd) == BundledFile

\* the defaults file to open: custom_defaults, or the bundled table
DefaultsFile(cd) == IF cd = NoneVal THEN BundledFile ELSE cd

\* open() succeeds and yaml.load() parses
CanLoad(f) == f \in DOMAIN yaml_files /\ yaml_files[f].ok

\* variant: the stored table is used even when it is empty
NeedsReloadNever(vd) == FALSE

\* "if not self.__variable_defaults"
NeedsReload(vd) == vd = << >>

\* variant: obs_data_loc is never searched
ResolveNoFallback(rec, loc, var) ==
    LET p1 == Path(rec["obs_file"])
    IN  [found |-> is_file(p1), path |-> p1,
         checks |-> << [var |-> var, which |-> "primary", path |-> p1] >>]

\* variant: only the file name is joined to obs_data_loc
ResolveBasename(rec, loc, var) ==
    LET p1 == Path(rec["obs_file"])
        p2 == JoinPath(Path(loc), [root |-> 0, parts |-> <<PathName(p1)>>])
        c1 == [var |-> var, which |-> "primary", path |-> p1]
        c2 == [var |-> var, which |-> "fallback", path |-> p2]
    IN  IF ~is_file(p1)
        THEN IF Truthy(loc)
             THEN [found |-> is_file(p2), path |-> p2, checks |-> <<c1, c2>>]
             ELSE [found |-> FALSE, path |-> p1, checks |-> <<c1>>]
        ELSE [found |-> TRUE, path |-> p1, checks |-> <<c1>>]

\* the search for the observation file of one record
Resolve(rec, loc, var) ==
    LET p1 == Path(rec["obs_file"])
        p2 == JoinPath(Path(loc), p1)
        c1 == [var |-> var, which |-> "primary", path |-> p1]
        c2 == [var |-> var, which |-> "fallback", path |-> p2]
    IN  IF ~is_file(p1)
        THEN IF Truthy(loc)
             THEN [found |-> is_file(p2), path |-> p2, checks |-> <<c1, c2>>]
             ELSE [found |-> FALSE, path |-> p1, checks |-> <<c1>>]
        ELSE [found |-> TRUE, path |-> p1, checks |-> <<c1>>]

\* variant: the record's obs_name is ignored
ObsNameFromFile(rec, path) == PathName(path)

ObsName(rec, path) ==
    IF "obs_name" \in DOMAIN rec THEN rec["obs_name"] ELSE PathName(path)

ObsVarName(rec, var) ==
    IF "obs_var_name" \in DOMAIN rec THEN rec["obs_var_name"] ELSE var

\* variant: the "no observations file" message is the "unable to find" one
LogLineSwapped(kind, var) ==
    [chan |-> "log",
     kind |-> IF kind = "no_obs_file" THEN "unable_to_find" ELSE kind,
     var |-> var]

LogLine(kind, var) == [chan |-> "log", kind |-> kind, var |-> var]

\* self.debug_log(msg)
debug_log(log, line) == Append(log, line)

Warning == [chan |-> "screen", kind |-> "warning", var |-> ""]

\* variant: the constructor never returns early
StopHereNever(co) == FALSE

\* "if not self.__compare_obs: return"
StopHere(co) == ~co

\* variant: the warning does not depend on the catalog
WarnAlways(d) == TRUE

\* "if not self.__var_obs_dict"
WarnNeeded(d) == d = << >>

\* ---------------------------------------------------------------- Init
Init ==
    /\ \E ud \in BOOLEAN, co \in BOOLEAN,
          cd \in {NoneVal, CustomFile, MissingFile, BrokenFile},
          L \in VarLists, loc \in {NoneVal, <<"">>, FallbackDir},
          C \in Catalogs :
           /\ config = [use_defaults |-> ud, custom_defaults |-> cd,
                        diag_var_list |-> L, compare_obs |-> co,
                        obs_data_loc |-> loc]
           /\ yaml_files =
                (BundledFile :> [ok |-> TRUE,
                                 data |-> IF cd = NoneVal THEN C ELSE OtherTable])
                @@ (CustomFile :> [ok |-> TRUE,
                                   data |-> IF cd = CustomFile THEN C ELSE OtherTable])
                @@ (BrokenFile :> [ok |-> FALSE, data |-> << >>])
    /\ obs_files \in SUBSET { Path(AbsObs), Path(RelObs),
                              JoinPath(Path(FallbackDir), Path(RelObs)),
                              Path(FallbackDir \o <<"TS.nc">>) }
    /\ self_use_defaults = FALSE
    /\ self_variable_defaults = << >>
    /\ self_diag_var_list = << >>
    /\ self_compare_obs = FALSE
    /\ self_var_obs_dict = << >>
    /\ defaults_file = NoneVal
    /\ loc_variable_defaults = << >>
    /\ obs_data_loc = NoneVal
    /\ idx = 0
    /\ cfgReads = {}
    /\ fsChecks = << >>
    /\ recReads = {}
    /\ events = << >>
    /\ pc = "start"
    /\ held = << >>

\* ------------------------------------------------------------ constructor
\* use_defaults and the defaults table
LoadDefaults ==
    /\ pc = "start"
    /\ self_use_defaults' = config.use_defaults
    /\ IF config.use_defaults
       THEN LET f == DefaultsFile(config.custom_defaults) IN
            /\ cfgReads' = cfgReads \cup {"diag_basic_info", "use_defaults", "custom_defaults"}
            /\ defaults_file' = f
            /\ IF CanLoad(f)
               THEN /\ self_variable_defaults' = yaml_files[f].data
                    /\ pc' = "loaded"
               ELSE /\ pc' = "raised"
                    /\ UNCHANGED self_variable_defaults
       ELSE /\ cfgReads' = cfgReads \cup {"diag_basic_info", "use_defaults"}
            /\ self_variable_defaults' = << >>
            /\ pc' = "loaded"
            /\ UNCHANGED defaults_file
    /\ UNCHANGED << inputs, self_diag_var_list, self_compare_obs, self_var_obs_dict,
                    loc_variable_defaults, obs_data_loc, idx, fsChecks, recReads,
                    events, held >>

\* diag_var_list, compare_obs, the empty var_obs_dict, and the early return
ReadRunMode ==
    /\ pc = "loaded"
    /\ self_diag_var_list' = config.diag_var_list
    /\ self_compare_obs' = config.compare_obs
    /\ self_var_obs_dict' = << >>
    /\ cfgReads' = cfgReads \cup {"diag_var_list", "compare_obs"}
    /\ pc' = IF StopHere(config.compare_obs) THEN "done" ELSE "obs_setup"
    /\ UNCHANGED << inputs, self_use_defaults, self_variable_defaults, defaults_file,
                    loc_variable_defaults, obs_data_loc, idx, fsChecks, recReads,
                    events, held >>

\* obs_data_loc and the defaults table the loop will use
LoadForObs ==
    /\ pc = "obs_setup"
    /\ obs_data_loc' = config.obs_data_loc
    /\ IF NeedsReload(self_variable_defaults)
       THEN LET f == DefaultsFile(config.custom_defaults) IN
            /\ cfgReads' = cfgReads \cup {"obs_data_loc", "custom_defaults"}
            /\ defaults_file' = f
            /\ IF CanLoad(f)
               THEN /\ loc_variable_defaults' = yaml_files[f].data
                    /\ pc' = "loop"
                    /\ idx' = 1
               ELSE /\ pc' = "raised"
                    /\ UNCHANGED << loc_variable_defaults, idx >>
       ELSE /\ cfgReads' = cfgReads \cup {"obs_data_loc"}
            /\ loc_variable_defaults' = self_variable_defaults
            /\ pc' = "loop"
            /\ idx' = 1
            /\ UNCHANGED defaults_file
    /\ UNCHANGED << inputs, self_use_defaults, self_variable_defaults,
                    self_diag_var_list, self_compare_obs, self_var_obs_dict,
                    fsChecks, recReads, events, held >>

\* one iteration of "for var in self.__diag_var_list"
LoopStep ==
    /\ pc = "loop"
    /\ idx <= Len(self_diag_var_list)
    /\ LET var == self_diag_var_list[idx] IN
       IF var \in DOMAIN loc_variable_defaults
       THEN LET rec == loc_variable_defaults[var] IN
            /\ recReads' = recReads \cup {var}
            /\ IF "obs_file" \in DOMAIN rec
               THEN LET res == Resolve(rec, obs_data_loc, var) IN
                    /\ fsChecks' = fsChecks \o res.checks
                    /\ IF res.found
                       THEN /\ self_var_obs_dict' =
                                 DictSet(self_var_obs_dict, var,
                                         [obs_file |-> res.path,
                                          obs_name |-> ObsName(rec, res.path),
                                          obs_var |-> ObsVarName(rec, var)])
                            /\ UNCHANGED events
                       ELSE /\ events' = debug_log(events, LogLine("unable_to_find", var))
                            /\ UNCHANGED self_var_obs_dict
               ELSE /\ events' = debug_log(events, LogLine("no_obs_file", var))
                    /\ UNCHANGED << self_var_obs_dict, fsChecks >>
       ELSE /\ events' = debug_log(events, LogLine("not_in_defaults", var))
            /\ UNCHANGED << self_var_obs_dict, fsChecks, recReads >>
    /\ idx' = idx + 1
    /\ UNCHANGED << inputs, self_use_defaults, self_variable_defaults,
                    self_diag_var_list, self_compare_obs, defaults_file,
                    loc_variable_defaults, obs_data_loc, cfgReads, pc, held >>

\* after the loop: the warning when nothing was found
Finish ==
    /\ pc = "loop"
    /\ idx > Len(self_diag_var_list)
    /\ events' = IF WarnNeeded(self_var_obs_dict) THEN Append(events, Warning) ELSE events
    /\ pc' = "done"
    /\ UNCHANGED << inputs, self_use_defaults, self_variable_defaults,
                    self_diag_var_list, self_compare_obs, self_var_obs_dict,
                    defaults_file, loc_variable_defaults, obs_data_loc, idx,
                    cfgReads, fsChecks, recReads, held >>

Construct == LoadDefaults \/ ReadRunMode \/ LoadForObs \/ LoopStep \/ Finish

\* -------------------------------------------------- properties and callers
\* A dict returned by copy.copy shares its values with the internal dict:
\* the caller's copy maps each key to a reference to the internal record.
Ref(owner, k) == [owner |-> owner, key |-> k]

\* copy.copy(self.__variable_defaults)
CopyDefaults(d) == [k \in DOMAIN d |-> Ref("variable_defaults", k)]

\* copy.copy(self.__var_obs_dict)
CopyObsDict(d) == [i \in 1..Len(d) |-> <<d[i][1], Ref("var_obs_dict", d[i][1])>>]

Get_variable_defaults ==
    /\ pc = "done"
    /\ "variable_defaults" \notin DOMAIN held
    /\ held' = held @@ ("variable_defaults" :> CopyDefaults(self_variable_defaults))
    /\ UNCHANGED << inputs, self_use_defaults, self_variable_defaults,
                    self_diag_var_list, self_compare_obs, self_var_obs_dict,
                    defaults_file, loc_variable_defaults, obs_data_loc, idx,
                    cfgReads, fsChecks, recReads, events, pc >>

Get_var_obs_dict ==
    /\ pc = "done"
    /\ "var_obs_dict" \notin DOMAIN held
    /\ held' = held @@ ("var_obs_dict" :> CopyObsDict(self_var_obs_dict))
    /\ UNCHANGED << inputs, self_use_defaults, self_variable_defaults,
                    self_diag_var_list, self_compare_obs, self_var_obs_dict,
                    defaults_file, loc_variable_defaults, obs_data_loc, idx,
                    cfgReads, fsChecks, recReads, events, pc >>

Get_diag_var_list ==
    /\ pc = "done"
    /\ "diag_var_list" \notin DOMAIN held
    /\ held' = held @@ ("diag_var_list" :> self_diag_var_list)
    /\ UNCHANGED << inputs, self_use_defaults, self_variable_defaults,
                    self_diag_var_list, self_compare_obs, self_var_obs_dict,
                    defaults_file, loc_variable_defaults, obs_data_loc, idx,
                    cfgReads, fsChecks, recReads, events, pc >>

\* use_defaults and compare_obs return copies of immutable values
Get_flags ==
    /\ pc = "done"
    /\ "flags" \notin DOMAIN held
    /\ held' = held @@ ("flags" :> <<self_use_defaults, self_compare_obs>>)
    /\ UNCHANGED << inputs, self_use_defaults, self_variable_defaults,
                    self_diag_var_list, self_compare_obs, self_var_obs_dict,
                    defaults_file, loc_variable_defaults, obs_data_loc, idx,
                    cfgReads, fsChecks, recReads, events, pc >>

\* caller:  del d[k]  on a returned variable_defaults
CallerDelKey ==
    /\ "variable_defaults" \in DOMAIN held
    /\ \E k \in DOMAIN held["variable_defaults"] :
          held' = [held EXCEPT !["variable_defaults"] =
                     [j \in DOMAIN @ \ {k} |-> @[j]]]
    /\ UNCHANGED << inputs, self_use_defaults, self_variable_defaults,
                    self_diag_var_list, self_compare_obs, self_var_obs_dict,
                    defaults_file, loc_variable_defaults, obs_data_loc, idx,
                    cfgReads, fsChecks, recReads, events, pc >>

\* caller:  d["NEW"] = {...}  on a returned var_obs_dict
CallerAddKey ==
    /\ "var_obs_dict" \in DOMAIN held
    /\ "NEW" \notin Keys(held["var_obs_dict"])
    /\ held' = [held EXCEPT !["var_obs_dict"] = Append(@, <<"NEW", Ref("caller", "NEW")>>)]
    /\ UNCHANGED << inputs, self_use_defaults, self_variable_defaults,
                    self_diag_var_list, self_compare_obs, self_var_obs_dict,
                    defaults_file, loc_variable_defaults, obs_data_loc, idx,
                    cfgReads, fsChecks, recReads, events, pc >>

\* caller:  lst.pop()  on a returned diag_var_list
CallerPopList ==
    /\ "diag_var_list" \in DOMAIN held
    /\ held["diag_var_list"] # << >>
    /\ held' = [held EXCEPT !["diag_var_list"] = SubSeq(@, 1, Len(@) - 1)]
    /\ UNCHANGED << inputs, self_use_defaults, self_variable_defaults,
                    self_diag_var_list, self_compare_obs, self_var_obs_dict,
                    defaults_file, loc_variable_defaults, obs_data_loc, idx,
                    cfgReads, fsChecks, recReads, events, pc >>

\* caller:  d[k]["obs_name"] = "changed"  on a returned variable_defaults;
\* d[k] is the record object the internal dict holds
CallerSetDefaultsField ==
    /\ "variable_defaults" \in DOMAIN held
    /\ \E k \in DOMAIN held["variable_defaults"] :
          LET r == held["variable_defaults"][k] IN
          /\ r.owner = "variable_defaults"
          /\ self_variable_defaults' =
                [self_variable_defaults EXCEPT ![r.key] =
                    ("obs_name" :> "changed") @@ @]
    /\ UNCHANGED << inputs, self_use_defaults, self_diag_var_list,
                    self_compare_obs, self_var_obs_dict, defaults_file,
                    loc_variable_defaults, obs_data_loc, idx, cfgReads,
                    fsChecks, recReads, events, pc, held >>

\* caller:  d[k]["obs_name"] = "changed"  on a returned var_obs_dict
CallerSetObsField ==
    /\ "var_obs_dict" \in DOMAIN held
    /\ \E i \in 1..Len(held["var_obs_dict"]) :
          LET r == held["var_obs_dict"][i][2] IN
          /\ r.owner = "var_obs_dict"
          /\ self_var_obs_dict' =
                DictSet(self_var_obs_dict, r.key,
                        [DictGet(self_var_obs_dict, r.key) EXCEPT !.obs_name = "changed"])
    /\ UNCHANGED << inputs, self_use_defaults, self_variable_defaults,
                    self_diag_var_list, self_compare_obs, defaults_file,
                    loc_variable_defaults, obs_data_loc, idx, cfgReads,
                    fsChecks, recReads, events, pc, held >>

Use == \/ Get_variable_defaults \/ Get_var_obs_dict \/ Get_diag_var_list \/ Get_flags
       \/ CallerDelKey \/ CallerAddKey \/ CallerPopList
       \/ CallerSetDefaultsField \/ CallerSetObsField

ViewInit ==
    /\ Init
    /\ config.use_defaults
    /\ config.compare_obs
    /\ config.custom_defaults = NoneVal
    /\ config.obs_data_loc = FallbackDir
    /\ config.diag_var_list = <<"TS", "PRECT">>

ViewNext == Construct \/ Use

SpecView == ViewInit /\ [][ViewNext]_vars

Next == Construct

Spec == Init /\ [][Next]_vars

\* ------------------------------------------------------------------ claims
L == config.diag_var_list
F == config.obs_data_loc
Range(q) == { q[i] : i \in 1..Len(q) }
FirstIdx(q, x) == CHOOSE i \in 1..Len(q) : q[i] = x /\ \A j \in 1..(i - 1) : q[j] # x
Visited == { L[i] : i \in 1..(idx - 1) }
\* the loop over L has started
InPass == pc = "loop" \/ (pc = "done" /\ config.compare_obs)
IsLog(e) == e.chan = "log"
IsWarning(e) == e.chan = "screen"
Logs == SelectSeq(events, IsLog)
Warnings == SelectSeq(events, IsWarning)
\* the defaults file named by the configuration
NamedFile == IF config.custom_defaults = NoneVal THEN BundledFile ELSE config.custom_defaults
NamedFileLoads == NamedFile \in DOMAIN yaml_files /\ yaml_files[NamedFile].ok
\* F followed by every segment of the string s
Under(dir, s) == [root |-> Path(dir).root, parts |-> Path(dir).parts \o Path(s).parts]

\* C1: the keys of the observation catalog are unique, are members of the
\* requested list L and appear in the order of their first occurrence in L.
C1_KeysUniqueOrdered ==
    /\ Cardinality(Keys(self_var_obs_dict)) = Len(self_var_obs_dict)
    /\ Keys(self_var_obs_dict) \subseteq Range(L)
    /\ \A i, j \in 1..Len(self_var_obs_dict) :
          i < j => FirstIdx(L, self_var_obs_dict[i][1]) < FirstIdx(L, self_var_obs_dict[j][1])

C1_Witness ==
    /\ pc = "done"
    /\ Len(L) = 3 /\ L[1] = L[3] /\ L[1] # L[2]
    /\ Keys(self_var_obs_dict) = {L[1], L[2]}

\* C2: with compare_obs false construction never enters the observation
\* pass: the catalog stays empty, no is_file() check is made, obs_data_loc is
\* not read and no defaults record is extracted; it ends at the early return
\* (or at a defaults file that cannot be loaded).
C2_NoObsWorkWithoutCompare ==
    ~config.compare_obs =>
        /\ pc \in {"start", "loaded", "done", "raised"}
        /\ self_var_obs_dict = << >>
        /\ fsChecks = << >>
        /\ recReads = {}
        /\ "obs_data_loc" \notin cfgReads
        /\ events = << >>
        /\ pc = "raised" => config.use_defaults /\ ~NamedFileLoads

C2_Witness ==
    /\ ~config.compare_obs
    /\ pc = "done"
    /\ L # << >>
    /\ Truthy(F)
    /\ \E v \in Range(L) :
          /\ v \in DOMAIN self_variable_defaults
          /\ "obs_file" \in DOMAIN self_variable_defaults[v]
          /\ Path(self_variable_defaults[v]["obs_file"]) \in obs_files

\* C3 (as stated): with use_defaults false the catalog used for resolution
\* is empty, construction never raises and the observation catalog is empty,
\* with the warning printed when compare_obs is true.
C3_AsStated ==
    ~config.use_defaults =>
        /\ pc # "raised"
        /\ InPass => loc_variable_defaults = << >>
        /\ self_var_obs_dict = << >>
        /\ (pc = "done" /\ config.compare_obs) => Warnings # << >>

\* C3 (amended): with use_defaults false the stored variable_defaults is the
\* empty mapping; with compare_obs false construction completes with an empty
\* catalog; with compare_obs true the pass uses the content of the named
\* defaults file, raises exactly when that file cannot be loaded, and warns
\* exactly when the resulting catalog is empty.
C3_StoredEmptyButPassReloads ==
    ~config.use_defaults =>
        /\ self_variable_defaults = << >>
        /\ ~config.compare_obs => pc # "raised" /\ self_var_obs_dict = << >>
        /\ config.compare_obs =>
              /\ InPass => NamedFileLoads /\ loc_variable_defaults = yaml_files[NamedFile].data
              /\ pc = "raised" => ~NamedFileLoads
              /\ pc = "done" => (Warnings # << >> <=> self_var_obs_dict = << >>)

C3_Witness ==
    /\ ~config.use_defaults
    /\ config.compare_obs
    /\ pc = "done"
    /\ self_var_obs_dict # << >>
    /\ self_variable_defaults = << >>

\* the acceptance condition of variable v, read off the defaults table used
\* by the pass, the fallback directory and the files on disk
Accepted(v) ==
    /\ v \in DOMAIN loc_variable_defaults
    /\ "obs_file" \in DOMAIN loc_variable_defaults[v]
    /\ LET s == loc_variable_defaults[v]["obs_file"] IN
          \/ Path(s) \in obs_files
          \/ Truthy(F) /\ JoinPath(Path(F), Path(s)) \in obs_files

\* C4: with compare_obs true the pass visits every element of L and never
\* raises; v is a key of the catalog iff v was visited, is in the defaults
\* table, has an obs_file, and that file exists as given or under F.
C4_AcceptedIffResolvable ==
    /\ InPass =>
          /\ idx \in 1..(Len(L) + 1)
          /\ \A v \in Vars :
                v \in Keys(self_var_obs_dict) <=> (v \in Visited /\ Accepted(v))
    /\ (pc = "done" /\ config.compare_obs) => Visited = Range(L)
    /\ pc = "raised" => idx = 0

C4_Witness ==
    /\ pc = "done"
    /\ Len(L) = 3
    /\ L[1] \in DOMAIN loc_variable_defaults
    /\ "obs_file" \in DOMAIN loc_variable_defaults[L[1]]
    /\ L[1] \notin Keys(self_var_obs_dict)
    /\ L[2] \in Keys(self_var_obs_dict)
    /\ L[3] = L[1]

\* C5: the stored obs_file is the path as given when that exists, also when
\* the path under F exists too; otherwise it is F followed by every segment
\* of the given value; is_file() is called on the fallback candidate only
\* right after the primary candidate of the same variable was missing, and
\* only when F is set.
C5_PrimaryThenFallback ==
    /\ \A i \in 1..Len(self_var_obs_dict) :
          LET v == self_var_obs_dict[i][1]
              e == self_var_obs_dict[i][2]
              s == loc_variable_defaults[v]["obs_file"]
          IN  IF Path(s) \in obs_files
              THEN e.obs_file = Path(s)
              ELSE /\ Truthy(F)
                   /\ e.obs_file = Under(F, s)
                   /\ e.obs_file \in obs_files
    /\ \A i \in 1..Len(fsChecks) :
          fsChecks[i].which = "fallback" =>
              /\ Truthy(F)
              /\ i > 1
              /\ fsChecks[i - 1].which = "primary"
              /\ fsChecks[i - 1].var = fsChecks[i].var
              /\ fsChecks[i - 1].path = Path(loc_variable_defaults[fsChecks[i].var]["obs_file"])
              /\ fsChecks[i - 1].path \notin obs_files

C5_Witness ==
    /\ pc = "done"
    /\ Len(self_var_obs_dict) = 2
    /\ \E i, j \in 1..2 :
          LET si == loc_variable_defaults[self_var_obs_dict[i][1]]["obs_file"]
              sj == loc_variable_defaults[self_var_obs_dict[j][1]]["obs_file"]
          IN  /\ self_var_obs_dict[i][2].obs_file = Under(F, si)
              /\ Path(si) \notin obs_files
              /\ Len(Path(si).parts) = 2
              /\ self_var_obs_dict[j][2].obs_file = Path(sj)
              /\ Path(FallbackDir \o <<"TS.nc">>) \in obs_files

\* C6: the stored obs_name is the record's obs_name when it has one and
\* otherwise the last segment of the accepted path; the stored obs_var is the
\* record's obs_var_name when it has one and otherwise the variable itself.
C6_NamesDefaulted ==
    \A i \in 1..Len(self_var_obs_dict) :
        LET v == self_var_obs_dict[i][1]
            e == self_var_obs_dict[i][2]
            rec == loc_variable_defaults[v]
        IN  /\ e.obs_name = IF "obs_name" \in DOMAIN rec
                            THEN rec["obs_name"]
                            ELSE e.obs_file.parts[Len(e.obs_file.parts)]
            /\ e.obs_var = IF "obs_var_name" \in DOMAIN rec
                           THEN rec["obs_var_name"]
                           ELSE v

C6_Witness ==
    /\ pc = "done"
    /\ \E i, j \in 1..Len(self_var_obs_dict) :
          LET ei == self_var_obs_dict[i][2]
              ej == self_var_obs_dict[j][2]
          IN  /\ ei.obs_name = "TS.nc" /\ ei.obs_var = self_var_obs_dict[i][1]
              /\ ei.obs_file = Under(F, RelObs) /\ Path(RelObs) \notin obs_files
              /\ ej.obs_name = "ERA5" /\ ej.obs_var = "t2m"

\* C8: the warning is printed at most once, only as the last output of a
\* completed pass, and exactly when compare_obs is true and the catalog is
\* empty at the end of the pass.
C8_WarningIffEmptyCompare ==
    /\ Len(Warnings) <= 1
    /\ pc # "done" => Warnings = << >>
    /\ pc = "done" =>
          (Warnings # << >> <=> (config.compare_obs /\ self_var_obs_dict = << >>))
    /\ Warnings # << >> => events[Len(events)] = Warning /\ Visited = Range(L)

C8_Witness ==
    /\ pc = "done"
    /\ Warnings # << >>
    /\ Len(Logs) = 3
    /\ Logs[1].kind # Logs[2].kind

BadOverride == config.custom_defaults # NoneVal /\ ~NamedFileLoads

\* C9 (as stated): an override defaults file that is missing or unparseable
\* aborts construction for every combination of use_defaults and compare_obs.
C9_AsStated == BadOverride => pc # "done"

\* C9 (amended): a missing or unparseable override aborts construction when
\* use_defaults or compare_obs is true (before any variable is resolved);
\* when both are false custom_defaults is never read and construction
\* completes.  Without an override nothing raises, and the table loaded
\* (when use_defaults or compare_obs is true) is the bundled one.
C9_BadOverrideAbortsWhenRead ==
    /\ BadOverride =>
          /\ config.use_defaults => pc \in {"start", "raised"}
          /\ config.compare_obs => pc \in {"start", "loaded", "obs_setup", "raised"}
          /\ (~config.use_defaults /\ ~config.compare_obs) =>
                pc # "raised" /\ "custom_defaults" \notin cfgReads
    /\ pc = "raised" => ~NamedFileLoads
    /\ config.custom_defaults = NoneVal =>
          /\ pc # "raised"
          /\ (config.use_defaults /\ pc # "start") =>
                /\ defaults_file = BundledFile
                /\ self_variable_defaults = yaml_files[BundledFile].data
          /\ (config.compare_obs /\ InPass) =>
                /\ defaults_file = BundledFile
                /\ loc_variable_defaults = yaml_files[BundledFile].data

C9_Witness ==
    /\ BadOverride
    /\ ~config.use_defaults
    /\ config.compare_obs
    /\ pc = "raised"
    /\ L # << >>

LogCount(v) == Cardinality({ i \in 1..Len(Logs) : Logs[i].var = v })

\* C10 (as stated): at the end of a compare_obs pass every skipped variable
\* has exactly one log line and every accepted variable none.
C10_AsStated ==
    (pc = "done" /\ config.compare_obs) =>
        \A v \in Range(L) :
            LogCount(v) = IF v \in Keys(self_var_obs_dict) THEN 0 ELSE 1

NotKey(v) == v \notin Keys(self_var_obs_dict)
Skipped == SelectSeq(SubSeq(L, 1, idx - 1), NotKey)
ExpectedKind(v) ==
    IF v \notin DOMAIN loc_variable_defaults THEN "not_in_defaults"
    ELSE IF "obs_file" \notin DOMAIN loc_variable_defaults[v] THEN "no_obs_file"
    ELSE "unable_to_find"

\* C10 (amended): the log holds one line per skipped element of L, in the
\* order of L (a skipped variable listed n times gets n lines), none for an
\* accepted variable, and each line has the kind of the first failing step.
C10_OneLinePerSkippedElement ==
    /\ ~InPass => Logs = << >>
    /\ InPass =>
          /\ Len(Logs) = Len(Skipped)
          /\ \A i \in 1..Len(Logs) :
                /\ Logs[i].var = Skipped[i]
                /\ Logs[i].kind = ExpectedKind(Skipped[i])
                /\ Logs[i].kind = "unable_to_find" => ~Accepted(Skipped[i])

C10_Witness ==
    /\ pc = "done"
    /\ Len(Logs) = 3
    /\ Logs[1].var = Logs[3].var
    /\ Logs[1].kind = "no_obs_file"
    /\ Logs[2].kind = "unable_to_find"
    /\ self_var_obs_dict = << >>

Internal == << self_use_defaults, self_variable_defaults, self_diag_var_list,
               self_compare_obs, self_var_obs_dict >>

\* C7: once construction is done, no accessor call or caller mutation of a
\* returned value changes the internal state.
C7_CallersCannotChangeState == [][pc = "done" => Internal' = Internal]_vars
====
